---- MODULE Spec2Model ----
(***************************************************************************)
(* Quotation Management RAG API: the document builder, the embedding/index *)
(* gateway (QuotationEmbeddingService) and the FastAPI facade (main.py).   *)
(*                                                                         *)
(* Python values are tagged records [kind, s, n]; a dict is a function     *)
(* from Keys to values, a missing key being the value Absent.              *)
(***************************************************************************)
EXTENDS Integers, Sequences, FiniteSets, TLC

VARIABLES collection, pre, request, response, trace

vars == <<collection, pre, request, response, trace>>

----------------------------------------------------------------------------
(* Bounds *)

\* longest batch handed to bulk_add_quotation_items
MaxBatch == 2
\* largest n_results asked of a query
MaxN == 2
\* the collection is not grown beyond this many entries
MaxItems == 2
\* most keys a generated document-builder input carries
MaxPresent == 2

----------------------------------------------------------------------------
(* Python values *)

Absent == [kind |-> "absent", s |-> "", n |-> 0]
None == [kind |-> "none", s |-> "", n |-> 0]
S(str) == [kind |-> "str", s |-> str, n |-> 0]
I(num) == [kind |-> "int", s |-> "", n |-> num]
\* a float of integral value num
F(num) == [kind |-> "float", s |-> "", n |-> num]

\* str(v), which is also what an f-string renders for {v}
PyStr(v) ==
    CASE v.kind = "none" -> "None"
      [] v.kind = "str" -> v.s
      [] v.kind = "int" -> ToString(v.n)
      [] v.kind = "float" -> ToString(v.n) \o ".0"

\* a presence test that takes every number, zero included, as set
TruthyZeroSet(v) ==
    CASE v.kind = "none" -> FALSE
      [] v.kind = "str" -> v.s # ""
      [] v.kind = "int" -> TRUE
      [] v.kind = "float" -> TRUE

\* bool(v): None, "", 0 and 0.0 are falsy
Truthy(v) ==
    CASE v.kind = "none" -> FALSE
      [] v.kind = "str" -> v.s # ""
      [] v.kind = "int" -> v.n # 0
      [] v.kind = "float" -> v.n # 0

\* d.get(k, default): the default only when the key is missing
DictGetDefault(d, k, default) == IF d[k].kind = "absent" THEN default ELSE d[k]

\* d.get(k)
DictGet(d, k) == DictGetDefault(d, k, None)

\* sep.join(parts)
RECURSIVE Join(_, _)
Join(parts, sep) ==
    IF parts = <<>> THEN ""
    ELSE IF Len(parts) = 1 THEN parts[1]
    ELSE parts[1] \o sep \o Join(Tail(parts), sep)

----------------------------------------------------------------------------
(* The record fields the model keeps *)

StrFields ==
    {"customername", "customeremail", "customerphone", "quotationcode",
     "quptationstatus", "itemname", "itembrand", "itemspecifications",
     "sellername", "sellerphone"}

\* Optional[float] = 0.00
FloatFieldsDefaultZero == {"quotationtotalamount", "itemsellingprice", "itemlistingprice"}

\* Optional[float] = None
FloatFieldsDefaultNone == {"itemquantity"}

FloatFields == FloatFieldsDefaultZero \cup FloatFieldsDefaultNone

Keys == {"id"} \cup StrFields \cup FloatFields

EmptyDict == [k \in Keys |-> Absent]

\* a dict literal: the keys of the record lit, every other key missing
Dict(lit) == [k \in Keys |-> IF k \in DOMAIN lit THEN lit[k] ELSE Absent]

\* QuotationItemCreate(**body).dict(): every key present, an unsupplied field
\* at its default, a number supplied for a float field coerced to float
QuotationItemCreate(body) ==
    [k \in Keys |->
        IF body[k].kind = "absent"
        THEN (IF k \in FloatFieldsDefaultZero THEN F(0) ELSE None)
        ELSE IF k \in FloatFields /\ body[k].kind = "int" THEN F(body[k].n)
        ELSE body[k]]

----------------------------------------------------------------------------
(* Document builder *)

\* if quotation_item.get(k): doc_parts.append(f"<label>: {quotation_item[k]}")
DocPart(quotation_item, k, label) ==
    IF Truthy(DictGet(quotation_item, k))
    THEN <<label \o ": " \o PyStr(quotation_item[k])>>
    ELSE <<>>

\* the builder with the phone appended before the email
doc_parts_phone_first(quotation_item) ==
       DocPart(quotation_item, "customername", "Customer")
    \o DocPart(quotation_item, "customerphone", "Phone")
    \o DocPart(quotation_item, "customeremail", "Email")
    \o DocPart(quotation_item, "quotationcode", "Quotation Code")
    \o DocPart(quotation_item, "quptationstatus", "Status")
    \o DocPart(quotation_item, "quotationtotalamount", "Total Amount")
    \o DocPart(quotation_item, "itemname", "Item")
    \o DocPart(quotation_item, "itembrand", "Brand")
    \o DocPart(quotation_item, "itemspecifications", "Specifications")
    \o DocPart(quotation_item, "itemquantity", "Quantity")
    \o DocPart(quotation_item, "itemsellingprice", "Selling Price")
    \o DocPart(quotation_item, "itemlistingprice", "Listing Price")
    \o DocPart(quotation_item, "sellername", "Seller")

doc_parts(quotation_item) ==
       DocPart(quotation_item, "customername", "Customer")
    \o DocPart(quotation_item, "customeremail", "Email")
    \o DocPart(quotation_item, "customerphone", "Phone")
    \o DocPart(quotation_item, "quotationcode", "Quotation Code")
    \o DocPart(quotation_item, "quptationstatus", "Status")
    \o DocPart(quotation_item, "quotationtotalamount", "Total Amount")
    \o DocPart(quotation_item, "itemname", "Item")
    \o DocPart(quotation_item, "itembrand", "Brand")
    \o DocPart(quotation_item, "itemspecifications", "Specifications")
    \o DocPart(quotation_item, "itemquantity", "Quantity")
    \o DocPart(quotation_item, "itemsellingprice", "Selling Price")
    \o DocPart(quotation_item, "itemlistingprice", "Listing Price")
    \o DocPart(quotation_item, "sellername", "Seller")

create_document_text(quotation_item) == Join(doc_parts(quotation_item), " | ")

----------------------------------------------------------------------------
(* The external collaborators: SentenceTransformer.encode and the ChromaDB  *)
(* collection.  Embedding vectors are opaque: the collection is a function  *)
(* from stored ids to [document, metadata], and the ranking of a search is  *)
(* whatever the index delivers.  Any external call may raise.               *)

EncodeError == "encode failed"
IndexError == "index call failed"

HasDuplicates(seq) == \E i, j \in 1..Len(seq) : i # j /\ seq[i] = seq[j]

SeqToSet(seq) == {seq[i] : i \in 1..Len(seq)}

\* collection.add(embeddings, documents, metadatas, ids): inserts new entries;
\* it never replaces one (that is collection.upsert): ids repeated in the call
\* or already stored are refused and nothing is written
CollectionAdd(coll, ids, documents, metadatas) ==
    IF HasDuplicates(ids)
    THEN [ok |-> FALSE, exc |-> "DuplicateIDError", collection |-> coll]
    ELSE IF SeqToSet(ids) \cap DOMAIN coll # {}
    THEN [ok |-> FALSE, exc |-> "IDAlreadyExistsError", collection |-> coll]
    ELSE [ok |-> TRUE, exc |-> "",
          collection |->
            [x \in DOMAIN coll \cup SeqToSet(ids) |->
                IF x \in DOMAIN coll THEN coll[x]
                ELSE LET i == CHOOSE j \in 1..Len(ids) : ids[j] = x
                     IN [document |-> documents[i], metadata |-> metadatas[i]]]]

\* collection.delete(ids=[id]): removes the entry when there is one
CollectionDelete(coll, id) == [x \in DOMAIN coll \ {id} |-> coll[x]]

\* collection.count()
CollectionCount(coll) == Cardinality(DOMAIN coll)

Min(a, b) == IF a < b THEN a ELSE b

\* the injective sequences of length k over the set ids
Rankings(ids, k) ==
    {r \in [1..k -> ids] : \A i, j \in 1..k : i # j => r[i] # r[j]}

\* distances delivered with a ranking of length k: ascending, or all equal
DistanceProfiles(k) == {[i \in 1..k |-> i], [i \in 1..k |-> 1]}

\* what collection.query(query_embeddings=[e], n_results=n) may deliver: the
\* nearest min(n, count) entries, best first, one inner list per query
\* embedding; with nothing to deliver the outer list may also be empty
CollectionQuery(coll, n) ==
    LET k == Min(n, CollectionCount(coll))
        Full == {[ids |-> <<r>>,
                  documents |-> <<[i \in 1..k |-> coll[r[i]].document]>>,
                  metadatas |-> <<[i \in 1..k |-> coll[r[i]].metadata]>>,
                  distances |-> <<d>>] :
                    r \in Rankings(DOMAIN coll, k), d \in DistanceProfiles(k)}
        Bare == [ids |-> <<>>, documents |-> <<>>, metadatas |-> <<>>, distances |-> <<>>]
    IN IF k = 0 THEN Full \cup {Bare} ELSE Full

\* the index delivers nothing when the call before it, or the search itself, raised
Delivered(coll, n, fault) ==
    IF fault \in {1, 2}
    THEN {[ids |-> <<>>, documents |-> <<>>, metadatas |-> <<>>, distances |-> <<>>]}
    ELSE CollectionQuery(coll, n)

----------------------------------------------------------------------------
(* Gateway: QuotationEmbeddingService.  An operation's outcome is whether   *)
(* it returned or raised, the exception text, the external calls it made in *)
(* order, the collection afterwards and the value returned.  fault is the   *)
(* position, among the external calls the operation makes, of the one that  *)
(* raises (0: none).                                                        *)

Raise(exc, calls, coll) ==
    [ok |-> FALSE, exc |-> exc, calls |-> calls, collection |-> coll, value |-> None]

Return(value, calls, coll) ==
    [ok |-> TRUE, exc |-> "", calls |-> calls, collection |-> coll, value |-> value]

\* one external call as it went: exc is the text of what it raised ("" when it
\* returned) and out is what it returned
Call(name, arg, exc, out) == [call |-> name, arg |-> arg, exc |-> exc, out |-> out]

\* self.model.encode(text), the fault injected when raises
Encode(text, raises) == Call("encode", text, IF raises THEN EncodeError ELSE "", None)

\* ids=[str(quotation_item.get('id', quotation_item.get('quotationcode', 'unknown')))]
AddId(quotation_item) ==
    PyStr(DictGetDefault(quotation_item, "id",
            DictGetDefault(quotation_item, "quotationcode", S("unknown"))))

add_quotation_item(coll, quotation_item, fault) ==
    LET doc_text == create_document_text(quotation_item)
        ids == <<AddId(quotation_item)>>
        added == CollectionAdd(coll, ids, <<doc_text>>, <<quotation_item>>)
        exc == IF fault = 2 THEN IndexError ELSE added.exc
        calls == <<Encode(doc_text, fault = 1), Call("add", ids, exc, None)>>
    IN IF fault = 1 THEN Raise(EncodeError, SubSeq(calls, 1, 1), coll)
       ELSE IF exc # "" THEN Raise(exc, calls, coll)
       ELSE Return(None, calls, added.collection)

\* ids.append(str(item.get('id', item.get('quotationcode', f'item_{len(ids)}'))))
BulkId(item, ids) ==
    PyStr(DictGetDefault(item, "id",
            DictGetDefault(item, "quotationcode", S("item_" \o ToString(Len(ids))))))

\* the for loop of bulk_add_quotation_items from item i on
RECURSIVE BulkLoop(_, _, _, _, _, _, _)
BulkLoop(quotation_items, i, documents, metadatas, ids, calls, fault) ==
    IF i > Len(quotation_items)
    THEN [ok |-> TRUE, documents |-> documents, metadatas |-> metadatas,
          ids |-> ids, calls |-> calls]
    ELSE LET item == quotation_items[i]
             doc_text == create_document_text(item)
             called == Append(calls, Encode(doc_text, fault = i))
         IN IF fault = i
            THEN [ok |-> FALSE, documents |-> documents, metadatas |-> metadatas,
                  ids |-> ids, calls |-> called]
            ELSE BulkLoop(quotation_items, i + 1, Append(documents, doc_text),
                          Append(metadatas, item), Append(ids, BulkId(item, ids)),
                          called, fault)

\* a bulk add that writes each record to the index as soon as it is embedded
RECURSIVE bulk_add_one_by_one(_, _, _)
bulk_add_one_by_one(coll, quotation_items, fault) ==
    IF quotation_items = <<>> THEN Return(None, <<>>, coll)
    ELSE LET head == add_quotation_item(coll, quotation_items[1],
                                        IF fault = 1 THEN 1 ELSE 0)
             rest == bulk_add_one_by_one(head.collection, Tail(quotation_items), fault - 1)
         IN IF ~head.ok THEN head
            ELSE [rest EXCEPT !.calls = head.calls \o rest.calls]

bulk_add_quotation_items(coll, quotation_items, fault) ==
    LET built == BulkLoop(quotation_items, 1, <<>>, <<>>, <<>>, <<>>, fault)
        added == CollectionAdd(coll, built.ids, built.documents, built.metadatas)
        exc == IF fault = Len(quotation_items) + 1 THEN IndexError ELSE added.exc
        calls == Append(built.calls, Call("add", built.ids, exc, None))
    IN IF ~built.ok THEN Raise(EncodeError, built.calls, coll)
       ELSE IF exc # "" THEN Raise(exc, calls, coll)
       ELSE Return(None, calls, added.collection)

\* results[field][0] if results[field] else []
FirstOrEmpty(outer) == IF outer # <<>> THEN outer[1] ELSE <<>>

\* query: results is what the index delivers when it is asked
query(coll, question, n_results, fault, results) ==
    LET calls == <<Encode(question, fault = 1),
                   Call("query", n_results, IF fault = 2 THEN IndexError ELSE "",
                        IF fault = 2 THEN None ELSE results)>>
    IN IF fault = 1 THEN Raise(EncodeError, SubSeq(calls, 1, 1), coll)
       ELSE IF fault = 2 THEN Raise(IndexError, calls, coll)
       ELSE Return([question |-> question,
                    documents |-> FirstOrEmpty(results.documents),
                    metadatas |-> FirstOrEmpty(results.metadatas),
                    distances |-> FirstOrEmpty(results.distances),
                    count |-> IF results.documents # <<>>
                              THEN Len(results.documents[1]) ELSE 0],
                   calls, coll)

NoAnswer == "I couldn't find any relevant information for your question."
AnswerHeader == "Based on the quotation data, here's what I found:\n"

\* if metadata.get(k): answer_parts.append(<text>)
AnswerPart(metadata, k, text) ==
    IF Truthy(DictGet(metadata, k)) THEN <<text>> ELSE <<>>

\* the parts the loop body appends for result idx
AnswerLine(idx, metadata) ==
       <<"\n" \o ToString(idx) \o ". ">>
    \o AnswerPart(metadata, "quotationcode",
                  "Quotation " \o PyStr(metadata["quotationcode"]) \o ": ")
    \o AnswerPart(metadata, "itemname", PyStr(metadata["itemname"]) \o " ")
    \o AnswerPart(metadata, "customername", "for " \o PyStr(metadata["customername"]) \o " ")
    \o AnswerPart(metadata, "itemsellingprice",
                  "at ₹" \o PyStr(metadata["itemsellingprice"]) \o " ")
    \o AnswerPart(metadata, "quptationstatus",
                  "(Status: " \o PyStr(metadata["quptationstatus"]) \o ")")

\* the loop taking its results from the last one back
RECURSIVE AnswerLoopReversed(_, _, _)
AnswerLoopReversed(results, idx, answer_parts) ==
    IF idx > Len(results.metadatas) THEN answer_parts
    ELSE AnswerLoopReversed(results, idx + 1,
            answer_parts \o AnswerLine(idx, results.metadatas[Len(results.metadatas) + 1 - idx]))

\* enumerate(zip(documents, metadatas, distances), 1) from idx on
RECURSIVE AnswerLoop(_, _, _)
AnswerLoop(results, idx, answer_parts) ==
    IF idx > Min(Len(results.documents), Min(Len(results.metadatas), Len(results.distances)))
    THEN answer_parts
    ELSE AnswerLoop(results, idx + 1, answer_parts \o AnswerLine(idx, results.metadatas[idx]))

\* the answer built without the test for an empty result
AnswerTextUnguarded(results) == Join(AnswerLoop(results, 1, <<AnswerHeader>>), "")

\* the text generate_answer builds from the dict query returned
AnswerText(results) ==
    IF results.count = 0 THEN NoAnswer
    ELSE Join(AnswerLoop(results, 1, <<AnswerHeader>>), "")

generate_answer(coll, question, n_results, fault, results) ==
    LET q == query(coll, question, n_results, fault, results)
    IN IF ~q.ok THEN q ELSE Return(AnswerText(q.value), q.calls, coll)

\* a delete that empties the collection
delete_everything(coll, item_id, fault) ==
    LET calls == <<Call("delete", item_id, IF fault = 1 THEN IndexError ELSE "", None)>>
    IN IF fault = 1 THEN Raise(IndexError, calls, coll)
       ELSE Return(None, calls, [x \in {} |-> None])

\* a delete whose except clause logs the failure and does not raise
delete_swallowing(coll, item_id, fault) ==
    LET calls == <<Call("delete", item_id, IF fault = 1 THEN IndexError ELSE "", None)>>
    IN IF fault = 1 THEN Return(None, calls, coll)
       ELSE Return(None, calls, CollectionDelete(coll, item_id))

delete_by_id(coll, item_id, fault) ==
    LET calls == <<Call("delete", item_id, IF fault = 1 THEN IndexError ELSE "", None)>>
    IN IF fault = 1 THEN Raise(IndexError, calls, coll)
       ELSE Return(None, calls, CollectionDelete(coll, item_id))

get_collection_count(coll, fault) ==
    LET calls == <<Call("count", None, IF fault = 1 THEN IndexError ELSE "", None)>>
    IN IF fault = 1 THEN Raise(IndexError, calls, coll)
       ELSE Return(CollectionCount(coll), calls, coll)

----------------------------------------------------------------------------
(* Facade: the FastAPI handlers of main.py *)

\* a or b
PyOr(a, b) == IF Truthy(a) THEN a ELSE b

\* except Exception as e: raise HTTPException(status_code=500, detail=str(e))
HttpError(exc) == [status |-> 500, detail |-> exc, body |-> None]

HttpOk(body) == [status |-> 200, detail |-> "", body |-> body]

\* try: <gateway call>; return <body>  except Exception as e: ... 500
Respond(out, body) == IF out.ok THEN HttpOk(body) ELSE HttpError(out.exc)

\* what a direct caller of the gateway sees: the value returned, or the raise
GatewayResult(out) ==
    IF out.ok THEN [status |-> 0, detail |-> "", body |-> out.value]
    ELSE [status |-> -1, detail |-> out.exc, body |-> None]

Request(op, items, text, n) == [op |-> op, items |-> items, text |-> text, n |-> n]

----------------------------------------------------------------------------
(* Inputs *)

AcmeLit == [id |-> I(1), customername |-> S("Acme"), itemname |-> S("Bearing"),
            itemsellingprice |-> I(500)]
ZenLit == [id |-> I(1), customername |-> S("Zen"), quptationstatus |-> S("open")]
CodeOnlyLit == [quotationcode |-> S("Q1"), itemname |-> S("Bolt")]
BothLit == [id |-> I(7), quotationcode |-> S("Q1"), quotationtotalamount |-> I(0)]
BareLit == [itemname |-> S("Nut")]
ZeroIdLit == [id |-> I(0), quotationcode |-> S("Q1")]

\* JSON bodies posted to /quotations/add
Bodies ==
    {Dict(AcmeLit), Dict(CodeOnlyLit), Dict(BothLit), Dict(BareLit), Dict(ZeroIdLit)}

\* JSON bodies posted, in a list, to /quotations/bulk-add
BulkBodies == {Dict(CodeOnlyLit), Dict(BareLit)}

\* dicts handed to add_quotation_item by a direct caller
GatewayItems == {Dict(AcmeLit), Dict(ZenLit), Dict(CodeOnlyLit), Dict(BareLit)}

\* dicts handed, in a list, to bulk_add_quotation_items by a direct caller
GatewayBulkItems == {Dict(AcmeLit), Dict(BareLit)}

Questions == {"bearing for Acme", ""}

\* path parameters of DELETE /quotations/{item_id}
ItemIds == {"0", "1", "7", "Q1", "None", "unknown", "item_0", "item_1"}

\* the non-empty sequences over set of length at most n
SeqsUpTo(set, n) == UNION {[1..k -> set] : k \in 1..n}

EmptyCollection == [x \in {} |-> None]

----------------------------------------------------------------------------
(* State machine: one action per handler and per direct gateway call *)

Idle == Request("idle", <<>>, "", 0)

Init ==
    /\ collection = EmptyCollection
    /\ pre = EmptyCollection
    /\ request = Idle
    /\ response = HttpOk(None)
    /\ trace = <<>>

\* a handler runs to completion on the event loop, from the request to the
\* response that is about to be sent
Step(req, out, resp) ==
    /\ request = Idle
    /\ CollectionCount(out.collection) <= MaxItems
    /\ collection' = out.collection
    /\ pre' = collection
    /\ request' = req
    /\ response' = resp
    /\ trace' = out.calls

\* the response is sent (the value returned to a direct caller) and the
\* service waits for the next request
Complete ==
    /\ request # Idle
    /\ request' = Idle
    /\ response' = HttpOk(None)
    /\ trace' = <<>>
    /\ pre' = collection
    /\ UNCHANGED collection

\* POST /quotations/add
add_quotation ==
    \E body \in Bodies, fault \in 0..2 :
        LET item_dict == QuotationItemCreate(body)
            out == add_quotation_item(collection, item_dict, fault)
        IN Step(Request("POST /quotations/add", <<item_dict>>, "", 0), out,
                Respond(out, [status |-> "success",
                              message |-> "Quotation item added successfully",
                              item_id |-> PyOr(DictGet(item_dict, "id"),
                                               DictGet(item_dict, "quotationcode"))]))

\* POST /quotations/bulk-add
bulk_add_quotations ==
    \E items \in SeqsUpTo(BulkBodies, MaxBatch) : \E fault \in 0..(Len(items) + 1) :
        LET items_list == [i \in 1..Len(items) |-> QuotationItemCreate(items[i])]
            out == bulk_add_quotation_items(collection, items_list, fault)
        IN Step(Request("POST /quotations/bulk-add", items_list, "", 0), out,
                Respond(out, [status |-> "success",
                              message |-> "Added " \o ToString(Len(items_list))
                                          \o " quotation items successfully",
                              count |-> Len(items_list)]))

\* a direct call of QuotationEmbeddingService.add_quotation_item
GatewayAdd ==
    \E item \in GatewayItems, fault \in 0..2 :
        LET out == add_quotation_item(collection, item, fault)
        IN Step(Request("add_quotation_item", <<item>>, "", 0), out, GatewayResult(out))

\* a direct call of QuotationEmbeddingService.bulk_add_quotation_items
GatewayBulkAdd ==
    \E items \in SeqsUpTo(GatewayBulkItems, MaxBatch) : \E fault \in 0..(Len(items) + 1) :
        LET out == bulk_add_quotation_items(collection, items, fault)
        IN Step(Request("bulk_add_quotation_items", items, "", 0), out, GatewayResult(out))

\* POST /query: query, then generate_answer, which queries again
query_quotations ==
    \E question \in Questions, n \in 1..MaxN, fault \in 0..4 :
        \E results \in Delivered(collection, n, fault) :
            LET first == query(collection, question, n, fault, results)
                second == generate_answer(collection, question, n, fault - 2, results)
                out == IF ~first.ok THEN first
                       ELSE [second EXCEPT !.calls = first.calls \o second.calls]
            IN Step(Request("POST /query", <<>>, question, n), out,
                    Respond(out, [question |-> question,
                                  answer |-> second.value,
                                  documents |-> first.value.documents,
                                  count |-> first.value.count]))

\* GET /query-simple
query_simple ==
    \E question \in Questions, n \in 1..MaxN, fault \in 0..2 :
        \E results \in Delivered(collection, n, fault) :
            LET out == generate_answer(collection, question, n, fault, results)
            IN Step(Request("GET /query-simple", <<>>, question, n), out,
                    Respond(out, [question |-> question, answer |-> out.value]))

\* DELETE /quotations/{item_id}
delete_quotation ==
    \E item_id \in ItemIds, fault \in 0..1 :
        LET out == delete_by_id(collection, item_id, fault)
        IN Step(Request("DELETE /quotations/{item_id}", <<>>, item_id, 0), out,
                Respond(out, [status |-> "success",
                              message |-> "Deleted quotation item " \o item_id]))

\* GET /stats
get_stats ==
    \E fault \in 0..1 :
        LET out == get_collection_count(collection, fault)
        IN Step(Request("GET /stats", <<>>, "", 0), out,
                Respond(out, [status |-> "success", total_items |-> out.value,
                              model |-> "all-MiniLM-L6-v2", vector_db |-> "ChromaDB"]))

Next ==
    \/ add_quotation
    \/ bulk_add_quotations
    \/ GatewayAdd
    \/ GatewayBulkAdd
    \/ query_quotations
    \/ query_simple
    \/ delete_quotation
    \/ get_stats
    \/ Complete

Spec == Init /\ [][Next]_vars

----------------------------------------------------------------------------
(* Claims about the service (checked under Spec) *)

SingleAdd == request.op \in {"POST /quotations/add", "add_quotation_item"}

BulkAdd == request.op \in {"POST /quotations/bulk-add", "bulk_add_quotation_items"}

Queried == request.op \in {"POST /query", "GET /query-simple"}

Deleted == request.op = "DELETE /quotations/{item_id}"

ViaHttp ==
    request.op \in {"POST /quotations/add", "POST /quotations/bulk-add", "POST /query",
                    "GET /query-simple", "DELETE /quotations/{item_id}", "GET /stats"}

\* the request ended in an error response, or in a raise to a direct caller
Failed == response.status \in {500, -1}

\* the positions of the external calls that raised
RaisedCalls == {i \in 1..Len(trace) : trace[i].exc # ""}

\* the positions of the external calls that an injected fault made raise
Faulted == {i \in 1..Len(trace) : trace[i].exc \in {EncodeError, IndexError}}

HasValue(v) == v.kind \notin {"absent", "none"}

\* the identifier of the spec: id when it has a value, else quotationcode
\* when it has one, else the fallback
ClaimedId(item, fallback) ==
    IF HasValue(item["id"]) THEN PyStr(item["id"])
    ELSE IF HasValue(item["quotationcode"]) THEN PyStr(item["quotationcode"])
    ELSE fallback

PositionalId(i) == "item_" \o ToString(i - 1)

\* C1 as stated: every record of a completed add or bulk add is stored under
\* its id when it has one, else its quotationcode when it has one, else the
\* fallback ('unknown', or item_<position> in a batch)
C1_IdentifierPrecedence ==
    (SingleAdd \/ BulkAdd) /\ ~Failed =>
        \A i \in 1..Len(request.items) :
            LET item == request.items[i]
                id == ClaimedId(item, IF SingleAdd THEN "unknown" ELSE PositionalId(i))
            IN id \in DOMAIN collection /\ collection[id].metadata = item

\* C2 as stated: an add whose identifier is already stored leaves one entry
\* for it, carrying the new record's document and metadata, and the count as
\* it was
C2_ReAddOverwrites ==
    SingleAdd /\ Faulted = {} =>
        LET item == request.items[1]
            id == trace[2].arg[1]
        IN /\ id \in DOMAIN collection
           /\ collection[id] = [document |-> create_document_text(item), metadata |-> item]
           /\ (id \in DOMAIN pre => CollectionCount(collection) = CollectionCount(pre))

\* the inner list of a field of what the index delivered
Inner(outer) == IF Len(outer) = 0 THEN <<>> ELSE outer[1]

\* the searches of the request that returned
Searches == {i \in 1..Len(trace) : trace[i].call = "query" /\ trace[i].exc = ""}

C3_State ==
    /\ Deleted /\ ~Failed =>
        LET x == request.text
        IN /\ x \notin DOMAIN collection
           /\ CollectionCount(collection) =
                CollectionCount(pre) - (IF x \in DOMAIN pre THEN 1 ELSE 0)
           /\ DOMAIN collection = DOMAIN pre \ {x}
           /\ \A y \in DOMAIN collection : collection[y] = pre[y]
    /\ Queried =>
        \A i \in Searches :
            LET out == trace[i].out
            IN \A j \in 1..Len(Inner(out.ids)) :
                /\ Inner(out.ids)[j] \in DOMAIN collection
                /\ Inner(out.documents)[j] = collection[Inner(out.ids)[j]].document
                /\ Inner(out.metadatas)[j] = collection[Inner(out.ids)[j]].metadata
    /\ request.op = "GET /stats" /\ ~Failed =>
        response.body.total_items = Cardinality(DOMAIN collection)

\* an identifier comes into the collection only by an add that names it
C3_Step ==
    \A x \in DOMAIN collection' \ DOMAIN collection :
        /\ request'.op \in {"POST /quotations/add", "add_quotation_item",
                            "POST /quotations/bulk-add", "bulk_add_quotation_items"}
        /\ \E i \in 1..Len(trace') :
              /\ trace'[i].call = "add"
              /\ \E j \in 1..Len(trace'[i].arg) : trace'[i].arg[j] = x

\* C3: a completed delete of x removes the entry x and nothing else, the count
\* dropping by one when x was stored and staying when it was not; a search
\* returns stored entries only, and x is stored again only by an add of x
C3_DeletionLaw == []C3_State /\ [][C3_Step]_vars

\* a stored identifier was deleted and another entry was left alone
C3_Witness ==
    /\ Deleted
    /\ ~Failed
    /\ request.text \in DOMAIN pre
    /\ CollectionCount(pre) = 2
    /\ CollectionCount(collection) = 1

\* C4: a bulk add embeds the records in input order, each once, and then
\* writes to the index at most once; when an embedding or the write fails
\* the collection is as before the call, and otherwise the whole batch is in
C4_BulkAllOrNothing ==
    BulkAdd =>
        LET n == Len(request.items)
            ids == trace[n + 1].arg
        IN /\ Len(trace) <= n + 1
           /\ \A i \in 1..Len(trace) :
                IF i <= n
                THEN /\ trace[i].call = "encode"
                     /\ trace[i].arg = create_document_text(request.items[i])
                ELSE /\ trace[i].call = "add"
                     /\ \A j \in 1..n : trace[j].exc = ""
           /\ RaisedCalls # {} => Failed /\ collection = pre /\ RaisedCalls = {Len(trace)}
           /\ RaisedCalls = {} =>
                /\ ~Failed
                /\ Len(trace) = n + 1
                /\ DOMAIN collection = DOMAIN pre \cup SeqToSet(ids)
                /\ CollectionCount(collection) = CollectionCount(pre) + n
                /\ \A y \in DOMAIN pre : collection[y] = pre[y]

\* the second embedding of a batch of two failed, with an entry stored before
C4_Witness ==
    /\ BulkAdd
    /\ Len(request.items) = 2
    /\ Len(trace) = 2
    /\ trace[2].exc = EncodeError
    /\ CollectionCount(pre) = 1
    /\ collection = pre

\* C5 as stated: in a bulk add every record with neither an id nor a
\* quotationcode goes to the index under item_<its position in the batch>,
\* and two such records of one batch go under different identifiers
C5_BatchFallbackIds ==
    BulkAdd /\ Len(trace) = Len(request.items) + 1 =>
        LET ids == trace[Len(trace)].arg
            lacking == {i \in 1..Len(request.items) :
                          /\ ~HasValue(request.items[i]["id"])
                          /\ ~HasValue(request.items[i]["quotationcode"])}
        IN /\ \A i \in lacking : ids[i] = PositionalId(i)
           /\ \A i, j \in lacking : i # j => ids[i] # ids[j]

\* C6: when an external call raises, it is the last call of the request
\* (nothing is tried again or carried on), the request fails with that
\* exception's text, with status 500 over HTTP; a request none of whose
\* calls raised succeeds
C6_NoFailureSwallowed ==
    request # Idle =>
        /\ RaisedCalls # {} =>
            /\ RaisedCalls = {Len(trace)}
            /\ Failed
            /\ response.detail = trace[Len(trace)].exc
            /\ response.status = (IF ViaHttp THEN 500 ELSE -1)
        /\ RaisedCalls = {} => response.status = (IF ViaHttp THEN 200 ELSE 0)

\* the search of generate_answer failed after the search of query went well
C6_Witness ==
    /\ request.op = "POST /query"
    /\ Len(trace) = 4
    /\ trace[2].exc = ""
    /\ trace[4].exc = IndexError
    /\ response = HttpError(IndexError)

\* a search that delivered no match
NoMatch(i) == Len(Inner(trace[i].out.documents)) = 0

\* C7: a query on an empty index, or one whose search delivers no match,
\* succeeds with no documents and count 0, and the answer is the fixed
\* sentence
C7_EmptyResult ==
    Queried /\ RaisedCalls = {} =>
        /\ CollectionCount(collection) = 0 => \A i \in Searches : NoMatch(i)
        /\ (\A i \in Searches : NoMatch(i)) =>
            /\ ~Failed
            /\ response.body.answer =
                 "I couldn't find any relevant information for your question."
            /\ request.op = "POST /query" =>
                 response.body.documents = <<>> /\ response.body.count = 0

\* /query answered on an empty index whose search delivered an empty outer list
C7_Witness ==
    /\ request.op = "POST /query"
    /\ request.text # ""
    /\ collection = EmptyCollection
    /\ response.status = 200
    /\ response.body.count = 0
    /\ trace[2].out.documents = <<>>

\* the lines of the answer for the metadatas, in their order
RECURSIVE ExpectedLines(_, _)
ExpectedLines(metadatas, i) ==
    IF i > Len(metadatas) THEN ""
    ELSE Join(AnswerLine(i, metadatas[i]), "") \o ExpectedLines(metadatas, i + 1)

\* C8: query hands on what the index delivered, in its order, at most
\* n_results of it, count being its length; the answer has one numbered
\* line per result, 1..n in that order, built from the metadata alone
C8_RankingPreserved ==
    Queried /\ ~Failed =>
        LET out == trace[2].out
            k == Len(Inner(out.documents))
        IN /\ k <= request.n
           /\ request.op = "POST /query" =>
                /\ response.body.documents = Inner(out.documents)
                /\ response.body.count = k
           /\ k > 0 =>
                response.body.answer =
                    "Based on the quotation data, here's what I found:\n"
                    \o ExpectedLines(Inner(out.metadatas), 1)

\* /query answered with two different results that the index delivered at
\* equal distance
C8_Witness ==
    /\ request.op = "POST /query"
    /\ response.status = 200
    /\ response.body.count = 2
    /\ response.body.documents[1] # response.body.documents[2]
    /\ trace[2].out.distances = << <<1, 1>> >>

\* C11 as stated: after a successful POST /quotations/add the item_id of the
\* response, taken as a string, is the identifier the record is stored
\* under, so that a DELETE of that value removes that record and the count
\* drops by one
C11_ReturnedIdIsStoredId ==
    request.op = "POST /quotations/add" /\ ~Failed =>
        LET returned == PyStr(response.body.item_id)
            stored == trace[2].arg[1]
            after == delete_by_id(collection, returned, 0).collection
        IN /\ returned = stored
           /\ returned \in DOMAIN collection
           /\ collection[returned].metadata = request.items[1]
           /\ returned \notin DOMAIN after
           /\ CollectionCount(after) = CollectionCount(collection) - 1

----------------------------------------------------------------------------
(* The document builder on its own: Init draws a dict, the actions apply    *)
(* create_document_text to it, directly or after the facade's parsing.      *)
(* response.body is the text returned and trace the list doc_parts.         *)

SampleText ==
    [customername |-> "Acme", customeremail |-> "a@x.io", customerphone |-> "555",
     quotationcode |-> "Q1", quptationstatus |-> "open", itemname |-> "Bearing",
     itembrand |-> "SKF", itemspecifications |-> "6204", sellername |-> "Indus",
     sellerphone |-> "777"]

\* the values a generated dict may carry under key k
ValuesOf(k) ==
    IF k = "id" THEN {None, I(0), I(1)}
    ELSE IF k \in FloatFields THEN {None, I(0), F(0), I(500), F(500)}
    ELSE {None, S(""), S(SampleText[k])}

\* the dicts whose keys are exactly those of the set P
RECURSIVE DictsOver(_)
DictsOver(P) ==
    IF P = {} THEN {EmptyDict}
    ELSE LET k == CHOOSE x \in P : TRUE
         IN {[d EXCEPT ![k] = v] : d \in DictsOver(P \ {k}), v \in ValuesOf(k)}

\* the dicts with at most MaxPresent keys, and the dict of the scenario
DocItems ==
    UNION {DictsOver(P) : P \in {Q \in SUBSET Keys : Cardinality(Q) <= MaxPresent}}
    \cup {Dict(AcmeLit)}

DocInit ==
    /\ collection = EmptyCollection
    /\ pre = EmptyCollection
    /\ request \in {Request("input", <<item>>, "", 0) : item \in DocItems}
    /\ response = HttpOk(None)
    /\ trace = <<>>

Built(op, quotation_item) ==
    /\ request' = Request(op, <<quotation_item>>, "", 0)
    /\ response' = [status |-> 0, detail |-> "", body |-> create_document_text(quotation_item)]
    /\ trace' = doc_parts(quotation_item)
    /\ UNCHANGED <<collection, pre>>

\* create_document_text on the dict as a direct caller hands it over
BuildDocument ==
    /\ request.op = "input"
    /\ Built("create_document_text", request.items[1])

\* create_document_text on item.dict() of the same dict posted as a JSON body
BuildPostedDocument ==
    /\ request.op = "input"
    /\ Built("create_document_text of item.dict()", QuotationItemCreate(request.items[1]))

DocNext == BuildDocument \/ BuildPostedDocument

DocSpec == DocInit /\ [][DocNext]_vars

----------------------------------------------------------------------------
(* Claims about the document builder (checked under DocSpec) *)

\* the thirteen fields of the document, in order, each with its label
DocFields ==
    << <<"customername", "Customer">>, <<"customeremail", "Email">>,
       <<"customerphone", "Phone">>, <<"quotationcode", "Quotation Code">>,
       <<"quptationstatus", "Status">>, <<"quotationtotalamount", "Total Amount">>,
       <<"itemname", "Item">>, <<"itembrand", "Brand">>,
       <<"itemspecifications", "Specifications">>, <<"itemquantity", "Quantity">>,
       <<"itemsellingprice", "Selling Price">>, <<"itemlistingprice", "Listing Price">>,
       <<"sellername", "Seller">> >>

IsZero(v) == v.kind \in {"int", "float"} /\ v.n = 0

\* present and not empty: a key that is there, whose value is not None, not
\* the empty string and not zero
NonEmpty(v) == v.kind \notin {"absent", "none"} /\ v # S("") /\ ~IsZero(v)

Labeled(label, v) == label \o ": " \o PyStr(v)

RECURSIVE ExpectedParts(_, _)
ExpectedParts(item, i) ==
    IF i > Len(DocFields) THEN <<>>
    ELSE (IF NonEmpty(item[DocFields[i][1]])
          THEN <<Labeled(DocFields[i][2], item[DocFields[i][1]])>> ELSE <<>>)
         \o ExpectedParts(item, i + 1)

DocBuilt == request.op \in {"create_document_text", "create_document_text of item.dict()"}

\* C9: the document is the " | "-join of "<Label>: <value>" for exactly the
\* present, non-empty ones of the thirteen fields, each once, in the fixed
\* order; no other field appears; the scenario dict yields the scenario text
C9_DocumentConstruction ==
    DocBuilt =>
        LET item == request.items[1]
        IN /\ trace = ExpectedParts(item, 1)
           /\ Len(trace) = Cardinality({i \in 1..Len(DocFields) : NonEmpty(item[DocFields[i][1]])})
           /\ response.body = Join(trace, " | ")
           /\ (trace = <<>> => response.body = "")
           /\ (item = Dict(AcmeLit) =>
                 response.body = "Customer: Acme | Item: Bearing | Selling Price: 500")

\* the scenario dict has been built into the scenario text
C9_Witness ==
    /\ request = Request("create_document_text", <<Dict(AcmeLit)>>, "", 0)
    /\ response.body = "Customer: Acme | Item: Bearing | Selling Price: 500"
    /\ Len(trace) = 3

\* the numeric fields of the document, as positions of DocFields
NumericDocFields == {i \in 1..Len(DocFields) : DocFields[i][1] \in FloatFields}

HasPart(text) == \E j \in 1..Len(trace) : trace[j] = text

\* C10 as stated: a numeric field supplied as exactly zero is rendered
C10_ZeroIsRendered ==
    DocBuilt =>
        \A i \in NumericDocFields :
            LET v == request.items[1][DocFields[i][1]]
            IN IsZero(v) => HasPart(Labeled(DocFields[i][2], v))

\* C10 as amended: a numeric field supplied as exactly zero is taken as empty
\* and left out of the document, as an absent one is; a numeric field with a
\* non-zero value is rendered
C10_ZeroIsOmitted ==
    DocBuilt =>
        \A i \in NumericDocFields :
            LET v == request.items[1][DocFields[i][1]]
            IN /\ IsZero(v) \/ v.kind \in {"absent", "none"} =>
                    \A w \in ValuesOf(DocFields[i][1]) \ {None} :
                        ~HasPart(Labeled(DocFields[i][2], w))
               /\ v.kind \in {"int", "float"} /\ v.n # 0 =>
                    HasPart(Labeled(DocFields[i][2], v))

\* a dict whose total amount is the integer 0 and whose selling price is 500
\* has been built: only the price is in the document
C10_Witness ==
    /\ DocBuilt
    /\ request.items[1]["quotationtotalamount"] = I(0)
    /\ request.items[1]["itemsellingprice"] = I(500)
    /\ trace = <<"Selling Price: 500">>

====
